---- MODULE Spec2Model ----
(***************************************************************************)
(* A model of sapcc/ipmi_exporter: the secure-execution subsystem          *)
(* (freeipmi.Execute and its credential FIFO), the scrape orchestrator     *)
(* (metaCollector.Collect), the SDR cache flush (flushSensorSDRCache) and  *)
(* the hot-reloadable configuration (SafeConfig).                          *)
(*                                                                         *)
(* Strings that the code inspects character by character are sequences of  *)
(* one-character strings; a fixed label of a regular expression            *)
(* ("Firmware Revision") is a single element of such a sequence.           *)
(***************************************************************************)
EXTENDS Integers, Sequences, FiniteSets, TLC

VARIABLES
    \* ---- freeipmi.Execute, its writer goroutine and the external command
    execPc,        \* position of Execute: "start", "piped", "waiting", "returned"
    writerPc,      \* position of the writer goroutine of freeipmiConfigPipe
    cmdPc,         \* position of the external command
    pipeObj,       \* what exists at the transport path: "none", "fifo", "regular"
    wroteTo,       \* kinds of file-system object the config bytes were written to
    invocations,   \* argument lists of the external commands the program started
    execIn,        \* inputs of the call: [args, target, user, password]
    execResult,    \* the Result returned: [out, err]
    \* ---- flushSensorSDRCache and the SDR cache directory
    today,         \* the local calendar date: [y, m, d]
    cacheFiles,    \* cache file name -> modification date, or NoFile
    cacheHost,     \* target.host of the scrapes
    cachePc,       \* "flush": next scrape starts; "query": its collectors run
    flushCount,    \* per file, the flushes issued for it today (capped)
    lastFlush,     \* what the last flushSensorSDRCache call saw and issued
    \* ---- metaCollector.Collect (one scrape)
    scrapePc,      \* "start", "loop", "done", "panicked"
    scrapeBy,      \* whose Collect ran: "none", "meta" (metaCollector), "legacy"
    scrapeCfg,     \* the resolved configuration: [collectors, excludeIds]
    scrapeIdx,     \* index of the next collector of config.GetCollectors()
    ch,            \* the metrics sent to the channel, in order
    scrapeLog,     \* per collector that returned: [name, up]
    lastCollect,   \* the last collector call: its Result and what it extracted
    \* ---- SafeConfig: the configuration, its mutex, scrapes reading, a reload
    cfgC,          \* *sc.C, the configuration in force
    cfgLock,       \* holder of sc's mutex: "free", "reload" or a reader
    readerPc,      \* per reader: "idle", "waiting" (in Lock), "inside"
    readerOp,      \* per reader: the read it performs
    readerGot,     \* what the last read that returned gave: [op, got]
    reloadPc,      \* position of ReloadConfig
    reloadFile,    \* the config file the reload reads
    reloadNew,     \* c, the configuration the reload parsed
    reloadRet,     \* what the last ReloadConfig call returned: "none", "nil", "err"
    cfgBefore,     \* the configuration in force when that call began
    env,           \* the process environment: [ipmi, netbox], set or not
    \* ---- one call of a function of the freeipmi package or of a collector
    fnPc,          \* "idle", "call", "done"
    fnIn,          \* the function called and its arguments
    fnOut          \* what the call returned

execVars == <<execPc, writerPc, cmdPc, pipeObj, wroteTo, invocations, execIn, execResult>>
cacheVars == <<today, cacheFiles, cacheHost, cachePc, flushCount, lastFlush>>

scrapeVars == <<scrapePc, scrapeBy, scrapeCfg, scrapeIdx, ch, scrapeLog, lastCollect>>

cfgVars == <<cfgC, cfgLock, readerPc, readerOp, readerGot, reloadPc, reloadFile,
             reloadNew, reloadRet, cfgBefore, env>>

fnVars == <<fnPc, fnIn, fnOut>>

vars == <<execVars, cacheVars, scrapeVars, cfgVars, fnVars>>

----------------------------------------------------------------------------
(* Strings                                                                 *)

\* A one-element string: a word the code never looks inside.
W(s) == <<s>>

SeqElems(s) == {s[i] : i \in 1..Len(s)}

\* strings.Contains(s, substr)
Contains(s, substr) ==
    \E i \in 0..(Len(s) - Len(substr)) :
        SubSeq(s, i + 1, i + Len(substr)) = substr

\* strings.Split(s, sep) for a one-character separator.
RECURSIVE Split(_, _)
Split(s, sep) ==
    LET idx == {i \in 1..Len(s) : s[i] = sep}
    IN IF idx = {} THEN <<s>>
       ELSE LET i == CHOOSE k \in idx : \A j \in idx : k <= j
            IN <<SubSeq(s, 1, i - 1)>> \o Split(SubSeq(s, i + 1, Len(s)), sep)

\* The first position at or after i whose character is not in S (Len+1 if none).
FirstNotIn(s, i, S) ==
    CHOOSE j \in i..(Len(s) + 1) :
        /\ j = Len(s) + 1 \/ s[j] \notin S
        /\ \A k \in i..(j - 1) : s[k] \in S

\* strings.Trim(s, cutset)
Trim(s, cutset) ==
    LET keep == {i \in 1..Len(s) : s[i] \notin cutset}
    IN IF keep = {} THEN <<>>
       ELSE SubSeq(s, CHOOSE a \in keep : \A b \in keep : a <= b,
                      CHOOSE a \in keep : \A b \in keep : a >= b)

DigitChars == {"0", "1", "2", "3", "4", "5", "6", "7", "8", "9"}
NumChars == DigitChars \cup {"."}
SpaceChars == {" "}

DigitVal(c) ==
    CASE c = "0" -> 0 [] c = "1" -> 1 [] c = "2" -> 2 [] c = "3" -> 3
      [] c = "4" -> 4 [] c = "5" -> 5 [] c = "6" -> 6 [] c = "7" -> 7
      [] c = "8" -> 8 [] c = "9" -> 9

RECURSIVE DigitsVal(_)
DigitsVal(s) ==
    IF s = <<>> THEN 0
    ELSE 10 * DigitsVal(SubSeq(s, 1, Len(s) - 1)) + DigitVal(s[Len(s)])

\* strconv.ParseInt(s, 10, 64): an optional sign and one or more digits.
ParseInt(s) ==
    LET signed == Len(s) >= 1 /\ s[1] \in {"+", "-"}
        body == IF signed THEN Tail(s) ELSE s
    IN IF body # <<>> /\ \A i \in 1..Len(body) : body[i] \in DigitChars
       THEN [ok |-> TRUE,
             val |-> IF signed /\ s[1] = "-" THEN 0 - DigitsVal(body)
                     ELSE DigitsVal(body)]
       ELSE [ok |-> FALSE, val |-> 0]

NaN == [nan |-> TRUE, num |-> 0, scale |-> 0]

\* A decimal as num / 10^scale, without trailing zeros in the fraction.
RECURSIVE Normalise(_, _)
Normalise(num, scale) ==
    IF scale > 0 /\ num % 10 = 0 THEN Normalise(num \div 10, scale - 1)
    ELSE [nan |-> FALSE, num |-> num, scale |-> scale]

\* strconv.ParseFloat(s, 64) on decimal numerals: an optional sign, digits
\* with at most one ".", at least one digit.
ParseFloat(s) ==
    LET signed == Len(s) >= 1 /\ s[1] \in {"+", "-"}
        body == IF signed THEN Tail(s) ELSE s
        dots == {i \in 1..Len(body) : body[i] = "."}
        digits == SelectSeq(body, LAMBDA c : c \in DigitChars)
    IN IF /\ \A i \in 1..Len(body) : body[i] \in NumChars
          /\ Cardinality(dots) <= 1
          /\ digits # <<>>
       THEN LET scale == IF dots = {} THEN 0
                         ELSE Len(body) - (CHOOSE i \in dots : TRUE)
                mag == DigitsVal(digits)
            IN [ok |-> TRUE,
                val |-> Normalise(IF signed /\ s[1] = "-" THEN 0 - mag ELSE mag,
                                  scale)]
       ELSE [ok |-> FALSE, val |-> NaN]

----------------------------------------------------------------------------
(* Single-value extraction                                                 *)

\* A pattern `^<label>\s*:<sep>(?P<value><capture>)<tail>`:
\*   sep     "one": \s     "star": \s*
\*   capture "num": [0-9.]*    "any": .*
\*   tail    "any": .*     "none": nothing     a word: \s*<word>.*
ipmiDCMICurrentPowerRegex ==
    [label |-> "Current Power", sep |-> "star", capture |-> "num", tail |-> "Watts"]
ipmiChassisPowerRegex ==
    [label |-> "System Power", sep |-> "one", capture |-> "any", tail |-> "none"]
bmcInfoFirmwareRevisionRegex ==
    [label |-> "Firmware Revision", sep |-> "star", capture |-> "num", tail |-> "any"]
bmcInfoManufacturerIDRegex ==
    [label |-> "Manufacturer ID", sep |-> "star", capture |-> "any", tail |-> "none"]

NoMatch == [matched |-> FALSE, value |-> <<>>]

\* regex.FindStringSubmatch(line) and the group named "value".
FindStringSubmatch(line, regex) ==
    IF Len(line) = 0 \/ line[1] # regex.label THEN NoMatch
    ELSE
      LET colon == FirstNotIn(line, 2, SpaceChars)
      IN IF colon > Len(line) \/ line[colon] # ":" THEN NoMatch
         ELSE IF regex.sep = "one" /\
                 (colon + 1 > Len(line) \/ line[colon + 1] \notin SpaceChars)
              THEN NoMatch
         ELSE
           LET from == IF regex.sep = "one" THEN colon + 2
                       ELSE FirstNotIn(line, colon + 1, SpaceChars)
               upto == IF regex.capture = "any" THEN Len(line) + 1
                       ELSE FirstNotIn(line, from, NumChars)
               after == FirstNotIn(line, upto, SpaceChars)
           IN IF regex.tail \in {"any", "none"}
                 \/ (after <= Len(line) /\ line[after] = regex.tail)
              THEN [matched |-> TRUE, value |-> SubSeq(line, from, upto - 1)]
              ELSE NoMatch

\* getValue: the first line that matches decides.
RECURSIVE GetValueLines(_, _)
GetValueLines(lines, regex) ==
    IF lines = <<>> THEN [value |-> <<>>, err |-> "notfound"]
    ELSE LET m == FindStringSubmatch(Head(lines), regex)
         IN IF m.matched THEN [value |-> m.value, err |-> "none"]
            ELSE GetValueLines(Tail(lines), regex)

GetValue(ipmiOutput, regex) == GetValueLines(Split(ipmiOutput, "\n"), regex)

\* A variant that gives up on a command error before parsing, as the other
\* extraction functions do.
RecoverValueErrFirst(ipmiOutput, regex) ==
    IF ipmiOutput.err # "none" THEN [value |-> <<>>, err |-> ipmiOutput.err]
    ELSE GetValue(ipmiOutput.output, regex)

\* The workaround of GetBMCInfoFirmwareRevision / GetBMCInfoManufacturerID:
\* parse first, raise the command's error only if parsing fails too.
RecoverValue(ipmiOutput, regex) ==
    LET v == GetValue(ipmiOutput.output, regex)
    IN IF v.err # "none" /\ ipmiOutput.err # "none"
       THEN [value |-> <<>>, err |-> ipmiOutput.err]
       ELSE v

GetBMCInfoFirmwareRevision(ipmiOutput) ==
    RecoverValue(ipmiOutput, bmcInfoFirmwareRevisionRegex)

GetBMCInfoManufacturerID(ipmiOutput) ==
    RecoverValue(ipmiOutput, bmcInfoManufacturerIDRegex)

\* A variant that parses whatever the command printed, error or not.
GetChassisPowerStateNoErr(ipmiOutput) ==
    LET v == GetValue(ipmiOutput.output, ipmiChassisPowerRegex)
    IN IF v.err # "none" THEN [value |-> -1, err |-> v.err]
       ELSE IF v.value = <<"o", "n">> THEN [value |-> 1, err |-> "none"]
       ELSE [value |-> 0, err |-> "none"]

GetChassisPowerState(ipmiOutput) ==
    IF ipmiOutput.err # "none" THEN [value |-> -1, err |-> ipmiOutput.err]
    ELSE LET v == GetValue(ipmiOutput.output, ipmiChassisPowerRegex)
         IN IF v.err # "none" THEN [value |-> -1, err |-> v.err]
            ELSE IF v.value = <<"o", "n">> THEN [value |-> 1, err |-> "none"]
            ELSE [value |-> 0, err |-> "none"]

----------------------------------------------------------------------------
(* Tabular extraction                                                      *)

\* csv.Reader.ReadAll: one record per non-empty line, fields split at ",";
\* every record must have as many fields as the first.
CsvReadAll(output) ==
    LET lines == SelectSeq(Split(output, "\n"), LAMBDA l : l # <<>>)
        records == [i \in 1..Len(lines) |-> Split(lines[i], ",")]
    IN IF \E i \in 1..Len(records) : Len(records[i]) # Len(records[1])
       THEN [err |-> TRUE, records |-> <<>>]
       ELSE [err |-> FALSE, records |-> records]

SensorFields == 7

\* The loop of GetSensorData over the records; an index past the end of a
\* record is a run-time panic.
RECURSIVE SensorRows(_, _, _)
SensorRows(fields, excludeSensorIds, result) ==
    IF fields = <<>> THEN [kind |-> "ok", rows |-> result]
    ELSE
      LET line == Head(fields)
          id == ParseInt(line[1])
      IN IF ~id.ok THEN [kind |-> "err", rows |-> result]
         ELSE IF id.val \in excludeSensorIds
              THEN SensorRows(Tail(fields), excludeSensorIds, result)
         ELSE IF Len(line) < 5 THEN [kind |-> "panic", rows |-> result]
         ELSE
           LET value == IF line[5] # <<"N", "/", "A">> THEN ParseFloat(line[5])
                        ELSE [ok |-> TRUE, val |-> NaN]
           IN IF ~value.ok THEN [kind |-> "err", rows |-> result]
              ELSE IF Len(line) < SensorFields
                   THEN [kind |-> "panic", rows |-> result]
              ELSE SensorRows(Tail(fields), excludeSensorIds,
                     Append(result,
                       [ID |-> id.val, Name |-> line[2], Type |-> line[3],
                        State |-> line[4], Value |-> value.val,
                        Unit |-> line[6], Event |-> Trim(line[7], {"'"})]))

\* A variant that never skips a row.
GetSensorDataNoExclude(ipmiOutput, excludeSensorIds) ==
    IF ipmiOutput.err # "none" THEN [kind |-> "err", rows |-> <<>>]
    ELSE LET r == CsvReadAll(ipmiOutput.output)
         IN IF r.err THEN [kind |-> "err", rows |-> <<>>]
            ELSE SensorRows(r.records, {}, <<>>)

GetSensorData(ipmiOutput, excludeSensorIds) ==
    IF ipmiOutput.err # "none" THEN [kind |-> "err", rows |-> <<>>]
    ELSE LET r == CsvReadAll(ipmiOutput.output)
         IN IF r.err THEN [kind |-> "err", rows |-> <<>>]
            ELSE SensorRows(r.records, excludeSensorIds, <<>>)

----------------------------------------------------------------------------
(* Credentials and arguments                                               *)

IpmiUser == <<"r", "o", "o", "t">>
IpmiPassword == <<"s", "3", "#", "t">>
TargetLocal == <<>>
Bmc1 == <<"b", "1">>
Hosts == {TargetLocal, Bmc1}
PipePath == W("/tmp/ipmi_exporter-0123456789abcdef0123456789abcdef")

\* The fixed argument lists of the queries the program issues.
ChassisArgs == <<W("--get-chassis-status")>>
BmcArgs == <<W("--get-device-id")>>
FlushArgs == <<W("--flush-cache")>>
SensorArgs == <<W("-Q"), W("--comma-separated-output"), W("--no-header-output"),
                W("--sdr-cache-recreate"), W("--output-sensor-state"),
                W("--ignore-not-available-sensors")>>
ArgLists == {ChassisArgs, BmcArgs, FlushArgs, SensorArgs}

\* Execute: args = append(args, "--config-file", pipe); "-h", target when remote.
ExecuteArgv(args, pipe, target) ==
    args \o <<W("--config-file"), pipe>>
         \o (IF target # TargetLocal THEN <<W("-h"), target>> ELSE <<>>)

\* freeipmiOutput (the older collector): credentials are command-line flags.
FreeipmiOutputArgv(host, user, password, arg) ==
    <<W("-D"), W("LAN_2_0"), W("-l"), W("admin"), W("-h"), host,
      W("-u"), user, W("-p"), password>> \o arg

----------------------------------------------------------------------------
(* freeipmi.Execute                                                        *)

NoResult == [out |-> "none", err |-> "none"]

ExecInit ==
    /\ execPc = "start"
    /\ writerPc = "none"
    /\ cmdPc = "none"
    /\ pipeObj = "none"
    /\ wroteTo = {}
    /\ invocations = {}
    /\ execIn \in [args : ArgLists, target : Hosts,
                   user : {IpmiUser}, password : {IpmiPassword}]
    /\ execResult = NoResult

\* No Execute call is in progress (the other specifications).
ExecIdle ==
    /\ execPc = "idle"
    /\ writerPc = "none"
    /\ cmdPc = "none"
    /\ pipeObj = "none"
    /\ wroteTo = {}
    /\ invocations = {}
    /\ execIn = [args |-> <<>>, target |-> TargetLocal,
                 user |-> IpmiUser, password |-> IpmiPassword]
    /\ execResult = NoResult

\* freeipmiConfigPipe fails (pipeName or Mkfifo): Execute returns Result{nil, err}
\* before any object exists and before the writer is started.
ExecPipeFails ==
    /\ execPc = "start"
    /\ execPc' = "returned"
    /\ execResult' = [out |-> "nil", err |-> "pipe"]
    /\ UNCHANGED <<writerPc, cmdPc, pipeObj, wroteTo, invocations, execIn>>
    /\ UNCHANGED <<cacheVars, scrapeVars, cfgVars, fnVars>>

\* freeipmiConfigPipe succeeds: Mkfifo(pipe, 0600), then `go func(...)`.
ExecPipeCreated ==
    /\ execPc = "start"
    /\ pipeObj' = "fifo"
    /\ writerPc' = "spawned"
    /\ execPc' = "piped"
    /\ UNCHANGED <<cmdPc, wroteTo, invocations, execIn, execResult>>
    /\ UNCHANGED <<cacheVars, scrapeVars, cfgVars, fnVars>>

\* exec.Command(cmd, args...).CombinedOutput(): the command is started, or
\* cannot be started at all (binary not found).
ExecStartCommand ==
    /\ execPc = "piped"
    /\ invocations' = invocations \cup
                        {ExecuteArgv(execIn.args, PipePath, execIn.target)}
    /\ \E started \in BOOLEAN :
          cmdPc' = IF started THEN "running" ELSE "failedStart"
    /\ execPc' = "waiting"
    /\ UNCHANGED <<writerPc, pipeObj, wroteTo, execIn, execResult>>
    /\ UNCHANGED <<cacheVars, scrapeVars, cfgVars, fnVars>>

\* What the deferred os.Remove(pipe) leaves at the path.
RemovePipe(obj) == "none"

\* A variant that only starts the command (cmd.Start) and does not wait.
CombinedOutputReturnedAtStart(pc) == pc # "none"

\* CombinedOutput returns when the command has exited (Run = Start, Wait), or
\* at once when it could not be started.
CombinedOutputReturned(pc) == pc \in {"exitedOk", "exitedFail", "failedStart"}

\* CombinedOutput has returned (the command exited or never started); the
\* deferred os.Remove(pipe) runs and Execute returns Result{out, err}.
ExecReturn ==
    /\ execPc = "waiting"
    /\ CombinedOutputReturned(cmdPc)
    /\ pipeObj' = RemovePipe(pipeObj)
    /\ execResult' = [out |-> IF cmdPc = "failedStart" THEN "nil" ELSE "bytes",
                      err |-> IF cmdPc = "exitedOk" THEN "none" ELSE "cmd"]
    /\ execPc' = "returned"
    /\ UNCHANGED <<writerPc, cmdPc, wroteTo, invocations, execIn>>
    /\ UNCHANGED <<cacheVars, scrapeVars, cfgVars, fnVars>>

\* What os.OpenFile(file, O_WRONLY|O_CREATE|O_APPEND, ModeNamedPipe) finds or
\* makes at the path: an existing FIFO is opened, a missing path is created
\* as a regular file (O_CREATE).
OpenFileObj(obj) == IF obj = "none" THEN "regular" ELSE obj

\* The writer goroutine calls os.OpenFile. On the FIFO the open blocks until a
\* reader attaches; on a path that no longer exists O_CREATE makes a regular
\* file and the open succeeds at once.
WriterOpen ==
    /\ writerPc = "spawned"
    /\ pipeObj' = OpenFileObj(pipeObj)
    /\ writerPc' = IF pipeObj' = "fifo" THEN "blockedOpen" ELSE "openedRegular"
    /\ UNCHANGED <<execPc, cmdPc, wroteTo, invocations, execIn, execResult>>
    /\ UNCHANGED <<cacheVars, scrapeVars, cfgVars, fnVars>>

\* The external command opens --config-file for reading (blocks until the
\* writer has opened the other end).
CmdOpenConfig ==
    /\ cmdPc = "running"
    /\ pipeObj = "fifo"
    /\ cmdPc' = "blockedOpen"
    /\ UNCHANGED <<execPc, writerPc, pipeObj, wroteTo, invocations, execIn, execResult>>
    /\ UNCHANGED <<cacheVars, scrapeVars, cfgVars, fnVars>>

\* Both ends of the FIFO are open: both open calls return.
PipeRendezvous ==
    /\ writerPc = "blockedOpen"
    /\ cmdPc = "blockedOpen"
    /\ writerPc' = "openedFifo"
    /\ cmdPc' = "reading"
    /\ UNCHANGED <<execPc, pipeObj, wroteTo, invocations, execIn, execResult>>
    /\ UNCHANGED <<cacheVars, scrapeVars, cfgVars, fnVars>>

\* f.Write(data): into the FIFO (an error, logged, when the reader is gone) or
\* into the regular file that O_CREATE made.
WriterWrite ==
    /\ writerPc \in {"openedFifo", "openedRegular"}
    /\ wroteTo' = IF writerPc = "openedRegular" THEN wroteTo \cup {"regular"}
                  ELSE IF cmdPc = "reading" THEN wroteTo \cup {"fifo"}
                  ELSE wroteTo
    /\ writerPc' = "written"
    /\ UNCHANGED <<execPc, cmdPc, pipeObj, invocations, execIn, execResult>>
    /\ UNCHANGED <<cacheVars, scrapeVars, cfgVars, fnVars>>

\* f.Close(): the goroutine ends.
WriterClose ==
    /\ writerPc = "written"
    /\ writerPc' = "closed"
    /\ UNCHANGED <<execPc, cmdPc, pipeObj, wroteTo, invocations, execIn, execResult>>
    /\ UNCHANGED <<cacheVars, scrapeVars, cfgVars, fnVars>>

\* The external command exits: without ever opening the config file, or after
\* it has attached to the FIFO; with exit status zero or not.
CmdExit ==
    /\ cmdPc \in {"running", "reading"}
    /\ \E ok \in BOOLEAN : cmdPc' = IF ok THEN "exitedOk" ELSE "exitedFail"
    /\ UNCHANGED <<execPc, writerPc, pipeObj, wroteTo, invocations, execIn, execResult>>
    /\ UNCHANGED <<cacheVars, scrapeVars, cfgVars, fnVars>>

\* The older collector's freeipmiOutput: one external command, no transport.
LegacyFreeipmiOutput ==
    /\ execPc = "start"
    /\ invocations' = invocations \cup
          {FreeipmiOutputArgv(execIn.target, execIn.user, execIn.password, execIn.args)}
    /\ \E ok \in BOOLEAN :
          execResult' = [out |-> "bytes", err |-> IF ok THEN "none" ELSE "cmd"]
    /\ execPc' = "legacyReturned"
    /\ UNCHANGED <<writerPc, cmdPc, pipeObj, wroteTo, execIn>>
    /\ UNCHANGED <<cacheVars, scrapeVars, cfgVars, fnVars>>

ExecNext ==
    \/ ExecPipeFails
    \/ ExecPipeCreated
    \/ ExecStartCommand
    \/ ExecReturn
    \/ WriterOpen
    \/ CmdOpenConfig
    \/ PipeRendezvous
    \/ WriterWrite
    \/ WriterClose
    \/ CmdExit
    \/ LegacyFreeipmiOutput

----------------------------------------------------------------------------
(* flushSensorSDRCache                                                     *)

MaxYear == 1
MaxMonth == 2
MaxDay == 2

Dates == [y : 0..MaxYear, m : 1..MaxMonth, d : 1..MaxDay]
NoFile == [y |-> 0, m |-> 0, d |-> 0]
LastDate == [y |-> MaxYear, m |-> MaxMonth, d |-> MaxDay]

NextDay(t) ==
    IF t.d < MaxDay THEN [t EXCEPT !.d = t.d + 1]
    ELSE IF t.m < MaxMonth THEN [y |-> t.y, m |-> t.m + 1, d |-> 1]
    ELSE [y |-> t.y + 1, m |-> 1, d |-> 1]

\* The tool keeps one cache file per target: sdr-cache-<node>.<host>.
CachePrefix == <<"s", "-">>
CacheFileOf(host) ==
    CachePrefix \o (IF host = TargetLocal THEN <<"l", "h">> ELSE host)
CacheFileNames == {CacheFileOf(h) : h \in Hosts}

\* nextTick.Day()-modTime.Day() > 0 || nextTick.Month() != modTime.Month()
IsStale(nextTick, modTime) ==
    nextTick.d - modTime.d > 0 \/ nextTick.m # modTime.m

\* What `ipmi-sensors --flush-cache` does to the directory: on success the
\* tool removes the cache file of the target it was given.
FlushEffect(files, host, ok) ==
    IF ok THEN [files EXCEPT ![CacheFileOf(host)] = NoFile] ELSE files

\* The loop over dirFiles. `st` is [files, flushed, statFailed]; statErr are
\* the files whose os.Stat fails although they exist; ok is the outcome of
\* the flush commands.
RECURSIVE FlushLoop(_, _, _, _, _, _)
FlushLoop(dirFiles, st, host, nextTick, statErr, ok) ==
    IF dirFiles = <<>> THEN st
    ELSE LET name == Head(dirFiles)
             rest == Tail(dirFiles)
         IN IF ~Contains(name, host) THEN
                FlushLoop(rest, st, host, nextTick, statErr, ok)
            ELSE IF name \in statErr \/ st.files[name] = NoFile THEN
                FlushLoop(rest,
                          [st EXCEPT !.statFailed = @ \cup {name}],
                          host, nextTick, statErr, ok)
            ELSE IF IsStale(nextTick, st.files[name]) THEN
                FlushLoop(rest,
                          [st EXCEPT !.files = FlushEffect(@, host, ok),
                                     !.flushed = Append(@, name)],
                          host, nextTick, statErr, ok)
            ELSE FlushLoop(rest, st, host, nextTick, statErr, ok)

\* Readdir(0): the names of the directory, in directory order.
DirListings(files) ==
    LET present == {f \in CacheFileNames : files[f] # NoFile}
    IN {s \in UNION {[1..n -> present] : n \in 0..Cardinality(present)} :
          /\ Len(s) = Cardinality(present)
          /\ \A i, j \in 1..Len(s) : i # j => s[i] # s[j]}

\* flushSensorSDRCache(target, cfg): the result of the whole call.
FlushSensorSDRCache(files, host, now, dirFiles, statErr, ok) ==
    FlushLoop(dirFiles, [files |-> files, flushed |-> <<>>, statFailed |-> {}],
              host, now, statErr, ok)

Count(s, x) == Cardinality({i \in 1..Len(s) : s[i] = x})
Min(a, b) == IF a < b THEN a ELSE b
FlushCap == 2

NoFlush == [before |-> [f \in CacheFileNames |-> NoFile], day |-> NoFile,
            statErr |-> {}, flushed |-> <<>>, ran |-> FALSE]

CacheInit ==
    /\ today \in Dates
    /\ cacheFiles \in [CacheFileNames -> Dates \cup {NoFile}]
    /\ cacheHost \in Hosts
    /\ cachePc = "flush"
    /\ flushCount = [f \in CacheFileNames |-> 0]
    /\ lastFlush = NoFlush

CacheIdle ==
    /\ today = LastDate
    /\ cacheFiles = [f \in CacheFileNames |-> NoFile]
    /\ cacheHost = TargetLocal
    /\ cachePc = "idle"
    /\ flushCount = [f \in CacheFileNames |-> 0]
    /\ lastFlush = NoFlush

\* A scrape starts: metaCollector.Collect calls flushSensorSDRCache.
CacheFlush ==
    /\ cachePc = "flush"
    /\ \E dirFiles \in DirListings(cacheFiles),
          statErr \in SUBSET CacheFileNames,
          ok \in BOOLEAN :
          LET r == FlushSensorSDRCache(cacheFiles, cacheHost, today,
                                       dirFiles, statErr, ok)
          IN /\ cacheFiles' = r.files
             /\ flushCount' = [f \in CacheFileNames |->
                     Min(FlushCap, flushCount[f] + Count(r.flushed, f))]
             /\ lastFlush' = [before |-> cacheFiles, day |-> today,
                              statErr |-> r.statFailed, flushed |-> r.flushed,
                              ran |-> TRUE]
    /\ cachePc' = "query"
    /\ UNCHANGED <<today, cacheHost>>
    /\ UNCHANGED <<execVars, scrapeVars, cfgVars, fnVars>>

\* The collectors of the scrape run; a sensor query rebuilds the target's
\* cache file when it is missing (or fails and leaves the directory as it is).
CacheQuery ==
    /\ cachePc = "query"
    /\ \E rebuilt \in BOOLEAN :
          cacheFiles' =
              IF rebuilt /\ cacheFiles[CacheFileOf(cacheHost)] = NoFile
              THEN [cacheFiles EXCEPT ![CacheFileOf(cacheHost)] = today]
              ELSE cacheFiles
    /\ cachePc' = "flush"
    /\ UNCHANGED <<today, cacheHost, flushCount, lastFlush>>
    /\ UNCHANGED <<execVars, scrapeVars, cfgVars, fnVars>>

\* Midnight passes between two scrapes.
DayTick ==
    /\ cachePc = "flush"
    /\ today # LastDate
    /\ today' = NextDay(today)
    /\ flushCount' = [f \in CacheFileNames |-> 0]
    /\ UNCHANGED <<cacheFiles, cacheHost, cachePc, lastFlush>>
    /\ UNCHANGED <<execVars, scrapeVars, cfgVars, fnVars>>

CacheNext ==
    \/ CacheFlush
    \/ CacheQuery
    \/ DayTick

----------------------------------------------------------------------------
(* Command outputs                                                         *)

NL == <<"\n">>
FirmwareLine == <<"Firmware Revision", " ", ":", " ", "1", ".", "2", "x">>
ManufacturerLine == <<"Manufacturer ID", " ", ":", " ", "D", "e", "l", "l">>
PowerOnLine == <<"System Power", " ", ":", " ", "o", "n">>
PowerOffLine == <<"System Power", " ", ":", " ", "o", "f", "f">>
FanRow == <<"1", "2", ",", "Fan1", ",", "Fan", ",", "Nominal", ",",
            "3", "2", "0", "0", ",", "RPM", ",", "'", "O", "K", "'">>
TempRow == <<"1", "3", ",", "Temp1", ",", "Temperature", ",", "Weird", ",",
             "N", "/", "A", ",", "C", ",", "'", "O", "K", "'">>
ShortRow == <<"1", "2", ",", "Fan1", ",", "Fan">>
BadValueRow == <<"1", "4", ",", "Fan2", ",", "Fan", ",", "Nominal", ",",
                 "3", "x", ",", "RPM", ",", "'", "O", "K", "'">>

Outputs ==
    { <<>>,
      FirmwareLine \o NL \o ManufacturerLine \o NL,
      FirmwareLine \o NL,
      PowerOnLine \o NL,
      PowerOffLine \o NL,
      FanRow \o NL \o TempRow \o NL,
      ShortRow \o NL,
      BadValueRow \o NL }

\* What Execute can return: the combined output and the command's error.
Results == [output : Outputs, err : {"none", "cmd"}]
           \cup {[output |-> <<>>, err |-> "pipe"]}

----------------------------------------------------------------------------
(* Collectors                                                              *)

Float(n) == [nan |-> FALSE, num |-> n, scale |-> 0]
Metric(desc, labels, value) == [desc |-> desc, labels |-> labels, value |-> value]

CollectorNames == {"ipmi", "chassis", "bmc"}

CollectorArgs(name) ==
    CASE name = "ipmi" -> SensorArgs
      [] name = "chassis" -> ChassisArgs
      [] name = "bmc" -> BmcArgs

\* ChassisCollector.Collect
ChassisCollect(result) ==
    LET s == GetChassisPowerState(result)
    IN IF s.err # "none"
       THEN [kind |-> "ret", up |-> 0, metrics |-> <<>>, err |-> s.err]
       ELSE [kind |-> "ret", up |-> 1, err |-> "none",
             metrics |-> <<Metric("chassis_power_state", <<>>, Float(s.value))>>]

\* The BMC-info collector: firmware revision and manufacturer ID.
BmcCollect(result) ==
    LET fw == GetBMCInfoFirmwareRevision(result)
        manu == GetBMCInfoManufacturerID(result)
    IN IF fw.err # "none" \/ manu.err # "none"
       THEN [kind |-> "ret", up |-> 0, metrics |-> <<>>]
       ELSE [kind |-> "ret", up |-> 1,
             metrics |-> <<Metric("bmc_info", <<fw.value, manu.value>>, Float(1))>>]

\* Nominal -> 0, Warning -> 1, Critical -> 2, anything else -> NaN
SensorState(state) ==
    CASE state = <<"Nominal">> -> Float(0)
      [] state = <<"Warning">> -> Float(1)
      [] state = <<"Critical">> -> Float(2)
      [] OTHER -> NaN

\* The metric family a row is routed to by its unit.
SensorFamily(unit) ==
    CASE unit = <<"RPM">> -> "fan_speed"
      [] unit = <<"C">> -> "temperature"
      [] unit = <<"A">> -> "current"
      [] unit = <<"V">> -> "voltage"
      [] unit = <<"W">> -> "power"
      [] OTHER -> "sensor"

RECURSIVE SensorMetrics(_)
SensorMetrics(rows) ==
    IF rows = <<>> THEN <<>>
    ELSE LET data == Head(rows)
         IN <<Metric(SensorFamily(data.Unit), <<data.ID, data.Name>>,
                     SensorState(data.State))>>
            \o SensorMetrics(Tail(rows))

\* The sensor collector: tabular extraction, then one sample per row.
SensorCollect(result, excludeIds) ==
    LET r == GetSensorData(result, excludeIds)
    IN CASE r.kind = "panic" -> [kind |-> "panic", up |-> 0, metrics |-> <<>>]
         [] r.kind = "err" -> [kind |-> "ret", up |-> 0, metrics |-> <<>>]
         [] r.kind = "ok" -> [kind |-> "ret", up |-> 1,
                              metrics |-> SensorMetrics(r.rows)]

\* collector.Collect(result, ch, target)
CollectorCollect(name, result, excludeIds) ==
    CASE name = "ipmi" -> SensorCollect(result, excludeIds)
      [] name = "chassis" -> ChassisCollect(result)
      [] name = "bmc" -> BmcCollect(result)

\* markCollectorUp(ch, name, up)
MarkCollectorUp(name, up) == <<Metric("up", <<name>>, Float(up))>>

\* The deferred function of Collect: the scrape duration.
DurationMetric == <<Metric("scrape_duration_seconds", <<>>, Float(0))>>

----------------------------------------------------------------------------
(* metaCollector.Collect                                                   *)

MaxCollectors == 2

\* config.GetCollectors(): an ordered list of distinct collector names.
CollectorLists ==
    {s \in UNION {[1..n -> CollectorNames] : n \in 0..MaxCollectors} :
        \A i, j \in 1..Len(s) : i # j => s[i] # s[j]}

NoCollect == [name |-> "none", result |-> [output |-> <<>>, err |-> "none"],
              fw |-> [value |-> <<>>, err |-> "none"],
              manu |-> [value |-> <<>>, err |-> "none"]]

FirstDate == [y |-> 0, m |-> 1, d |-> 1]

ScrapeInit ==
    /\ scrapePc = "start"
    /\ scrapeBy = "none"
    /\ scrapeCfg \in [collectors : CollectorLists, excludeIds : {{}, {12}}]
    /\ scrapeIdx = 1
    /\ ch = <<>>
    /\ scrapeLog = <<>>
    /\ lastCollect = NoCollect
    /\ today = LastDate
    /\ cacheHost \in Hosts
    /\ cacheFiles \in {[f \in CacheFileNames |-> NoFile],
                       [f \in CacheFileNames |->
                           IF f = CacheFileOf(cacheHost) THEN FirstDate ELSE NoFile]}
    /\ cachePc = "idle"
    /\ flushCount = [f \in CacheFileNames |-> 0]
    /\ lastFlush = NoFlush

ScrapeIdle ==
    /\ scrapePc = "idle"
    /\ scrapeBy = "none"
    /\ scrapeCfg = [collectors |-> <<>>, excludeIds |-> {}]
    /\ scrapeIdx = 1
    /\ ch = <<>>
    /\ scrapeLog = <<>>
    /\ lastCollect = NoCollect

\* start := time.Now(); the deferred function is registered; the
\* configuration is resolved and flushSensorSDRCache is called.
ScrapeStart ==
    /\ scrapePc = "start"
    /\ \E dirFiles \in DirListings(cacheFiles), ok \in BOOLEAN :
          LET r == FlushSensorSDRCache(cacheFiles, cacheHost, today,
                                       dirFiles, {}, ok)
          IN /\ cacheFiles' = r.files
             /\ flushCount' = [f \in CacheFileNames |->
                     Min(FlushCap, flushCount[f] + Count(r.flushed, f))]
             /\ lastFlush' = [before |-> cacheFiles, day |-> today,
                              statErr |-> r.statFailed, flushed |-> r.flushed,
                              ran |-> TRUE]
             /\ invocations' = invocations \cup
                   {ExecuteArgv(FlushArgs, PipePath, cacheHost) :
                        i \in 1..Len(r.flushed)}
    /\ scrapePc' = "loop"
    /\ scrapeBy' = "meta"
    /\ UNCHANGED <<today, cacheHost, cachePc>>
    /\ UNCHANGED <<scrapeCfg, scrapeIdx, ch, scrapeLog, lastCollect>>
    /\ UNCHANGED <<execPc, writerPc, cmdPc, pipeObj, wroteTo, execIn, execResult>>
    /\ UNCHANGED <<cfgVars, fnVars>>

\* A variant without `defer`: a panic sends nothing more.
LoopEmitsNoDefer(name, c) ==
    IF c.kind = "panic" THEN <<>>
    ELSE c.metrics \o MarkCollectorUp(name, c.up)

\* What the channel holds after one iteration of the loop over the
\* collectors: the collector's samples, then its up/down indicator. A panic
\* inside Collect unwinds through the deferred function only.
LoopEmits(name, c) ==
    IF c.kind = "panic" THEN DurationMetric
    ELSE c.metrics \o MarkCollectorUp(name, c.up)

\* One iteration: Execute, collector.Collect, markCollectorUp.
ScrapeCollector ==
    /\ scrapePc = "loop"
    /\ scrapeIdx <= Len(scrapeCfg.collectors)
    /\ \E result \in Results :
          LET name == scrapeCfg.collectors[scrapeIdx]
              c == CollectorCollect(name, result, scrapeCfg.excludeIds)
          IN /\ invocations' = invocations \cup
                   {ExecuteArgv(CollectorArgs(name), PipePath, cacheHost)}
             /\ ch' = ch \o LoopEmits(name, c)
             /\ scrapePc' = IF c.kind = "panic" THEN "panicked" ELSE "loop"
             /\ scrapeLog' = IF c.kind = "panic" THEN scrapeLog
                             ELSE Append(scrapeLog, [name |-> name, up |-> c.up])
             /\ lastCollect' = [name |-> name, result |-> result,
                                fw |-> GetBMCInfoFirmwareRevision(result),
                                manu |-> GetBMCInfoManufacturerID(result)]
    /\ scrapeIdx' = scrapeIdx + 1
    /\ UNCHANGED <<scrapeBy, scrapeCfg>>
    /\ UNCHANGED cacheVars
    /\ UNCHANGED <<execPc, writerPc, cmdPc, pipeObj, wroteTo, execIn, execResult>>
    /\ UNCHANGED <<cfgVars, fnVars>>

\* What the deferred function sends when Collect returns.
FinishEmits == DurationMetric

\* The loop is over: Collect returns and its deferred function runs.
ScrapeFinish ==
    /\ scrapePc = "loop"
    /\ scrapeIdx > Len(scrapeCfg.collectors)
    /\ ch' = ch \o FinishEmits
    /\ scrapePc' = "done"
    /\ UNCHANGED <<scrapeBy, scrapeCfg, scrapeIdx, scrapeLog, lastCollect>>
    /\ UNCHANGED <<execVars, cacheVars, cfgVars, fnVars>>

----------------------------------------------------------------------------
(* collector.Collect of the older, single collector                        *)

PowerLine == <<"Current Power", " ", ":", " ", "2", "1", "0", " ", "Watts">>

\* What bmc-info and ipmi-dcmi can print, with the command's error.
BmcResults ==
    [output : {<<>>, FirmwareLine \o NL, FirmwareLine \o NL \o ManufacturerLine \o NL},
     err : {"none", "cmd"}]
DcmiResults ==
    {[output |-> PowerLine \o NL, err |-> "none"],
     [output |-> <<>>, err |-> "none"],
     [output |-> <<>>, err |-> "cmd"]}
MonitoringResults == [output : Outputs, err : {"none", "cmd"}]

DcmiArgs == <<W("--get-system-power-statistics")>>
MonitoringArgs == SensorArgs \o <<W("--exclude-sensor-types=")>>

\* collector.getBmcInfo: a command error ends it before any extraction.
LegacyGetBmcInfo(res) ==
    IF res.err # "none" THEN [fw |-> <<>>, manu |-> <<>>, err |-> res.err]
    ELSE LET fw == GetValue(res.output, bmcInfoFirmwareRevisionRegex)
             manu == GetValue(res.output, bmcInfoManufacturerIDRegex)
         IN IF fw.err # "none" THEN [fw |-> <<>>, manu |-> <<>>, err |-> fw.err]
            ELSE IF manu.err # "none"
                 THEN [fw |-> <<>>, manu |-> <<>>, err |-> manu.err]
            ELSE [fw |-> fw.value, manu |-> manu.value, err |-> "none"]

\* collector.getPowerConsumption and getCurrentPowerConsumption
LegacyGetPowerConsumption(res) ==
    IF res.err # "none" THEN [value |-> Float(-1), err |-> res.err]
    ELSE LET v == GetValue(res.output, ipmiDCMICurrentPowerRegex)
         IN IF v.err # "none" THEN [value |-> Float(-1), err |-> v.err]
            ELSE LET f == ParseFloat(v.value)
                 IN IF f.ok THEN [value |-> f.val, err |-> "none"]
                    ELSE [value |-> Float(0), err |-> "parse"]

\* The state description a row is sent under, by its unit.
LegacyStateDesc(unit) ==
    CASE unit = <<"RPM">> -> "fan_speed_state"
      [] unit = <<"C">> -> "temperature_state"
      [] unit = <<"A">> -> "current_state"
      [] unit = <<"V">> -> "voltage_state"
      [] unit = <<"W">> -> "power_state"
      [] OTHER -> "sensor_state"

\* collectTypedSensor / collectGenericSensor for every row
RECURSIVE LegacySensorMetrics(_)
LegacySensorMetrics(rows) ==
    IF rows = <<>> THEN <<>>
    ELSE LET data == Head(rows)
             desc == LegacyStateDesc(data.Unit)
         IN <<Metric(desc,
                     IF desc = "sensor_state"
                     THEN <<data.ID, data.Name, data.Type>>
                     ELSE <<data.ID, data.Name>>,
                     SensorState(data.State))>>
            \o LegacySensorMetrics(Tail(rows))

\* The older flushSensorSDRCache: it returns at the first stale matching file.
RECURSIVE LegacyFlushLoop(_, _, _, _, _)
LegacyFlushLoop(dirFiles, files, host, nextTick, statErr) ==
    IF dirFiles = <<>> THEN <<>>
    ELSE LET name == Head(dirFiles)
         IN IF Contains(name, host) /\ name \notin statErr
               /\ files[name] # NoFile /\ IsStale(nextTick, files[name])
            THEN <<name>>
            ELSE LegacyFlushLoop(Tail(dirFiles), files, host, nextTick, statErr)

LegacyFlushSensorSDRCache(files, host, now, dirFiles, statErr, ok) ==
    LET flushed == LegacyFlushLoop(dirFiles, files, host, now, statErr)
    IN [files |-> IF flushed # <<>> THEN FlushEffect(files, host, ok) ELSE files,
        flushed |-> flushed]

\* collector.collectMonitoring after the flush: the query, the split of its
\* output, one state sample per row.
LegacyCollectMonitoring(res, excludeIds) ==
    IF res.err # "none" THEN [kind |-> "err", metrics |-> <<>>]
    ELSE LET r == GetSensorData([output |-> res.output, err |-> "none"], excludeIds)
         IN IF r.kind = "ok"
            THEN [kind |-> "ok", metrics |-> LegacySensorMetrics(r.rows)]
            ELSE [kind |-> r.kind, metrics |-> <<>>]

\* collector.markAsDown
MarkAsDown == <<Metric("up", <<>>, Float(0))>>

\* What Collect sends before its deferred function runs.
LegacyEmits(info, power, m) ==
    CASE m.kind = "panic" -> <<>>
      [] m.kind = "err" -> MarkAsDown
      [] m.kind = "ok" ->
            m.metrics \o
            <<Metric("bmc_info", <<info.fw, info.manu>>, Float(1)),
              Metric("power_consumption_watts", <<>>, power.value),
              Metric("up", <<>>, Float(1))>>

\* One scrape by the older collector, from the credentials lookup to the
\* deferred scrape-duration sample.
LegacyCollect ==
    /\ scrapePc = "start"
    /\ \E credsErr \in BOOLEAN, bmc \in BmcResults, dcmi \in DcmiResults,
          mon \in MonitoringResults,
          dirFiles \in DirListings(cacheFiles), ok \in BOOLEAN :
          IF credsErr
          THEN /\ ch' = ch \o MarkAsDown \o DurationMetric
               /\ scrapePc' = "done"
               /\ UNCHANGED <<invocations, cacheFiles, flushCount, lastFlush>>
          ELSE LET info == LegacyGetBmcInfo(bmc)
                   power == LegacyGetPowerConsumption(dcmi)
                   fl == LegacyFlushSensorSDRCache(cacheFiles, cacheHost, today,
                                                   dirFiles, {}, ok)
                   m == LegacyCollectMonitoring(mon, scrapeCfg.excludeIds)
               IN /\ ch' = ch \o LegacyEmits(info, power, m) \o DurationMetric
                  /\ scrapePc' = IF m.kind = "panic" THEN "panicked" ELSE "done"
                  /\ invocations' = invocations \cup
                        {FreeipmiOutputArgv(cacheHost, IpmiUser, IpmiPassword, a) :
                            a \in {BmcArgs, DcmiArgs, MonitoringArgs}
                                  \cup {FlushArgs : i \in 1..Len(fl.flushed)}}
                  /\ cacheFiles' = fl.files
                  /\ flushCount' = [f \in CacheFileNames |->
                        Min(FlushCap, flushCount[f] + Count(fl.flushed, f))]
                  /\ lastFlush' = [before |-> cacheFiles, day |-> today,
                                   statErr |-> {}, flushed |-> fl.flushed,
                                   ran |-> TRUE]
    /\ scrapeBy' = "legacy"
    /\ UNCHANGED <<today, cacheHost, cachePc>>
    /\ UNCHANGED <<scrapeCfg, scrapeIdx, scrapeLog, lastCollect>>
    /\ UNCHANGED <<execPc, writerPc, cmdPc, pipeObj, wroteTo, execIn, execResult>>
    /\ UNCHANGED <<cfgVars, fnVars>>

ScrapeNext ==
    \/ ScrapeStart
    \/ ScrapeCollector
    \/ ScrapeFinish
    \/ LegacyCollect

----------------------------------------------------------------------------
(* Config, SafeConfig                                                      *)

Jobs == {"default", "job1", "baremetal/ironic", "cp/netbox"}

Cred(u, p) == [User |-> u, Password |-> p]
NoCred == Cred("", "")

\* A Config: Credentials is a map (a function on the jobs it holds).
EmptyConfig ==
    [Credentials |-> <<>>, ExcludeSensorIDs |-> {}, ExcludeSensorTypes |-> {}]

\* The yaml documents a reload may find. `xxx` are the keys no field of the
\* Go struct takes (the inline XXX maps).
Doc(creds, ids, types, xxx) ==
    [readable |-> TRUE, wellFormed |-> TRUE, credentials |-> creds,
     exclude_sensor_ids |-> ids, exclude_sensor_types |-> types, xxx |-> xxx]
YamlCred(u, p, xxx) == [user |-> u, pass |-> p, xxx |-> xxx]

FileDefault ==
    Doc([j \in {"default"} |-> YamlCred("admin", "pw1", {})], {12}, {"Fan"}, {})
FileJob ==
    Doc([j \in {"job1"} |-> YamlCred("ops", "pw2", {})], {}, {}, {})
FileNoCreds == Doc(<<>>, {7}, {}, {})
FileUnknownKey ==
    Doc([j \in {"default"} |-> YamlCred("eve", "pw3", {})], {}, {}, {"modules"})
FileUnknownCredKey ==
    Doc([j \in {"default"} |-> YamlCred("eve", "pw3", {"token"})], {}, {}, {})
FileMalformed == [Doc(<<>>, {}, {}, {}) EXCEPT !.wellFormed = FALSE]
FileUnreadable == [Doc(<<>>, {}, {}, {}) EXCEPT !.readable = FALSE]

ConfigFiles == {FileJob, FileNoCreds, FileUnknownKey,
                FileUnknownCredKey, FileMalformed, FileUnreadable}

\* A variant that lets unknown keys pass.
CheckOverflowNever(m) == FALSE

\* checkOverflow(m, ctx): an error when the inline map caught a key.
CheckOverflow(m) == m # {}

\* ioutil.ReadFile, yaml.Unmarshal with Config.UnmarshalYAML and
\* Credentials.UnmarshalYAML: [err, c].
LoadConfig(file) ==
    IF ~file.readable THEN [err |-> TRUE, c |-> EmptyConfig]
    ELSE IF ~file.wellFormed THEN [err |-> TRUE, c |-> EmptyConfig]
    ELSE IF \E j \in DOMAIN file.credentials :
                CheckOverflow(file.credentials[j].xxx)
         THEN [err |-> TRUE, c |-> EmptyConfig]
    ELSE IF CheckOverflow(file.xxx) THEN [err |-> TRUE, c |-> EmptyConfig]
    ELSE [err |-> FALSE,
          c |-> [Credentials |->
                     [j \in DOMAIN file.credentials |->
                         Cred(file.credentials[j].user, file.credentials[j].pass)],
                 ExcludeSensorIDs |-> file.exclude_sensor_ids,
                 ExcludeSensorTypes |-> file.exclude_sensor_types]]

\* m[key] = value on a Go map.
MapPut(m, key, value) ==
    [k \in DOMAIN m \cup {key} |-> IF k = key THEN value ELSE m[k]]

\* CredentialsForJob: the job's credentials, or the default, or an error.
CredentialsForJob(c, job) ==
    IF job \in DOMAIN c.Credentials
    THEN [cred |-> c.Credentials[job], err |-> FALSE]
    ELSE IF "default" \in DOMAIN c.Credentials
    THEN [cred |-> c.Credentials["default"], err |-> FALSE]
    ELSE [cred |-> NoCred, err |-> TRUE]

Readers == {"scrape1", "scrape2"}

\* The reads of the configuration a scrape makes.
ReadOps == {[fn |-> "CredentialsForJob", job |-> "baremetal/ironic"],
            [fn |-> "ExcludeSensorIDs", job |-> ""],
            [fn |-> "ExcludeSensorTypes", job |-> ""]}

ReadConfig(c, op) ==
    CASE op.fn = "CredentialsForJob" ->
             [op |-> op, got |-> CredentialsForJob(c, op.job)]
      [] op.fn = "ExcludeSensorIDs" -> [op |-> op, got |-> c.ExcludeSensorIDs]
      [] op.fn = "ExcludeSensorTypes" -> [op |-> op, got |-> c.ExcludeSensorTypes]

NoOp == [fn |-> "none", job |-> ""]
NoRead == [op |-> NoOp, got |-> {}]

CfgInit ==
    /\ cfgC \in {EmptyConfig, LoadConfig(FileDefault).c}
    /\ cfgLock = "free"
    /\ readerPc = [r \in Readers |-> "idle"]
    /\ readerOp = [r \in Readers |-> NoOp]
    /\ readerGot = NoRead
    /\ reloadPc = "idle"
    /\ reloadFile = FileUnreadable
    /\ reloadNew = EmptyConfig
    /\ reloadRet = "none"
    /\ cfgBefore = cfgC
    /\ env \in [ipmi : BOOLEAN, netbox : BOOLEAN]

CfgIdle ==
    /\ cfgC = EmptyConfig
    /\ cfgLock = "free"
    /\ readerPc = [r \in Readers |-> "idle"]
    /\ readerOp = [r \in Readers |-> NoOp]
    /\ readerGot = NoRead
    /\ reloadPc = "idle"
    /\ reloadFile = FileUnreadable
    /\ reloadNew = EmptyConfig
    /\ reloadRet = "none"
    /\ cfgBefore = EmptyConfig
    /\ env = [ipmi |-> FALSE, netbox |-> FALSE]

\* sc.Lock() returns only when nobody holds the mutex.
CanLock(lock) == lock = "free"

\* A scrape calls CredentialsForJob, ExcludeSensorIDs or ExcludeSensorTypes.
ReaderCall(r) ==
    /\ readerPc[r] = "idle"
    /\ \E op \in ReadOps : readerOp' = [readerOp EXCEPT ![r] = op]
    /\ readerPc' = [readerPc EXCEPT ![r] = "waiting"]
    /\ UNCHANGED <<cfgC, cfgLock, readerGot, reloadPc, reloadFile, reloadNew,
                   reloadRet, cfgBefore, env>>
    /\ UNCHANGED <<execVars, cacheVars, scrapeVars, fnVars>>

\* sc.Lock() in the reading function returns.
ReaderLock(r) ==
    /\ readerPc[r] = "waiting"
    /\ CanLock(cfgLock)
    /\ cfgLock' = r
    /\ readerPc' = [readerPc EXCEPT ![r] = "inside"]
    /\ UNCHANGED <<cfgC, readerOp, readerGot, reloadPc, reloadFile, reloadNew,
                   reloadRet, cfgBefore, env>>
    /\ UNCHANGED <<execVars, cacheVars, scrapeVars, fnVars>>

\* The read itself, then the deferred sc.Unlock().
ReaderReturn(r) ==
    /\ readerPc[r] = "inside"
    /\ readerGot' = ReadConfig(cfgC, readerOp[r])
    /\ readerOp' = [readerOp EXCEPT ![r] = NoOp]
    /\ cfgLock' = "free"
    /\ readerPc' = [readerPc EXCEPT ![r] = "idle"]
    /\ UNCHANGED <<cfgC, reloadPc, reloadFile, reloadNew,
                   reloadRet, cfgBefore, env>>
    /\ UNCHANGED <<execVars, cacheVars, scrapeVars, fnVars>>

\* ReloadConfig(configFile): ReadFile and yaml.Unmarshal. On an error the
\* call returns it; nothing else has happened.
ReloadLoad ==
    /\ reloadPc = "idle"
    /\ \E file \in ConfigFiles :
          LET l == LoadConfig(file)
          IN /\ reloadFile' = file
             /\ reloadNew' = l.c
             /\ reloadPc' = IF l.err THEN "idle" ELSE "parsed"
             /\ reloadRet' = IF l.err THEN "err" ELSE "none"
    /\ cfgBefore' = cfgC
    /\ UNCHANGED <<cfgC, cfgLock, readerPc, readerOp, readerGot, env>>
    /\ UNCHANGED <<execVars, cacheVars, scrapeVars, fnVars>>

\* sc.Lock()
ReloadLock ==
    /\ reloadPc = "parsed"
    /\ CanLock(cfgLock)
    /\ cfgLock' = "reload"
    /\ reloadPc' = "locked"
    /\ UNCHANGED <<cfgC, readerPc, readerOp, readerGot, reloadFile, reloadNew,
                   reloadRet, cfgBefore, env>>
    /\ UNCHANGED <<execVars, cacheVars, scrapeVars, fnVars>>

\* sc.C = c; sc.Unlock()
ReloadAssign ==
    /\ reloadPc = "locked"
    /\ cfgC' = reloadNew
    /\ cfgLock' = "free"
    /\ reloadPc' = "unlocked"
    /\ UNCHANGED <<readerPc, readerOp, readerGot, reloadFile, reloadNew,
                   reloadRet, cfgBefore, env>>
    /\ UNCHANGED <<execVars, cacheVars, scrapeVars, fnVars>>

\* IPMI_USER / IPMI_PASSWORD: sc.C.Credentials["baremetal/ironic"] = ...
\* (after the mutex was released).
ReloadEnvIronic ==
    /\ reloadPc = "unlocked"
    /\ cfgC' = IF env.ipmi
               THEN [cfgC EXCEPT !.Credentials =
                        MapPut(@, "baremetal/ironic", Cred("envuser", "envpw"))]
               ELSE cfgC
    /\ reloadPc' = "ironic"
    /\ UNCHANGED <<cfgLock, readerPc, readerOp, readerGot, reloadFile, reloadNew,
                   reloadRet, cfgBefore, env>>
    /\ UNCHANGED <<execVars, cacheVars, scrapeVars, fnVars>>

\* NETBOX_CP_USER / NETBOX_CP_PASSWORD: c.Credentials["cp/netbox"] = ...;
\* ReloadConfig returns nil.
ReloadEnvNetbox ==
    /\ reloadPc = "ironic"
    /\ cfgC' = IF env.netbox
               THEN [cfgC EXCEPT !.Credentials =
                        MapPut(@, "cp/netbox", Cred("nbuser", "nbpw"))]
               ELSE cfgC
    /\ reloadPc' = "idle"
    /\ reloadRet' = "nil"
    /\ UNCHANGED <<cfgLock, readerPc, readerOp, readerGot, reloadFile, reloadNew,
                   cfgBefore, env>>
    /\ UNCHANGED <<execVars, cacheVars, scrapeVars, fnVars>>

CfgNext ==
    \/ \E r \in Readers : ReaderCall(r)
    \/ \E r \in Readers : ReaderLock(r)
    \/ \E r \in Readers : ReaderReturn(r)
    \/ ReloadLoad
    \/ ReloadLock
    \/ ReloadAssign
    \/ ReloadEnvIronic
    \/ ReloadEnvNetbox

----------------------------------------------------------------------------
(* One call of GetSensorData, ChassisCollector.Collect or EscapePassword   *)

\* EscapePassword: strings.Replace(password, "#", "\\#", -1)
RECURSIVE EscapePasswordFrom(_, _)
EscapePasswordFrom(password, n) ==
    IF password = <<>> THEN <<>>
    ELSE IF Head(password) = "#" /\ n # 0
         THEN <<"\\", "#">> \o EscapePasswordFrom(Tail(password), n - 1)
         ELSE <<Head(password)>> \o EscapePasswordFrom(Tail(password), n)

\* A variant that replaces the first "#" only (n = 1 instead of -1).
EscapePasswordFirst(password) == EscapePasswordFrom(password, 1)

EscapePassword(password) == EscapePasswordFrom(password, -1)

MaxPasswordLen == 3
PasswordChars == {"a", "#", "\\"}
Passwords == UNION {[1..n -> PasswordChars] : n \in 0..MaxPasswordLen}

\* Sensor records as ipmi-sensors prints them, with what each one says: the
\* fields, the id and the value as numbers, the event without its quotes.
SensorRecord(fields, id, value, event, badId, badValue) ==
    [fields |-> fields, id |-> id, value |-> value, event |-> event,
     badId |-> badId, badValue |-> badValue]

OkEvent == <<"'", "O", "K", "'">>

FanData ==
    SensorRecord(<<<<"1", "2">>, <<"Fan1">>, <<"Fan">>, <<"Nominal">>,
                   <<"3", "2", "0", "0">>, <<"RPM">>, OkEvent>>,
                 12, Float(3200), <<"O", "K">>, FALSE, FALSE)
TempData ==
    SensorRecord(<<<<"1", "3">>, <<"Temp1">>, <<"Temperature">>, <<"Weird">>,
                   <<"N", "/", "A">>, <<"C">>, OkEvent>>,
                 13, NaN, <<"O", "K">>, FALSE, FALSE)
VoltData ==
    SensorRecord(<<<<"1", "5">>, <<"Volt1">>, <<"Voltage">>, <<"Warning">>,
                   <<"1", ".", "5", "0">>, <<"V">>, OkEvent>>,
                 15, [nan |-> FALSE, num |-> 15, scale |-> 1], <<"O", "K">>,
                 FALSE, FALSE)
BadValueData ==
    SensorRecord(<<<<"1", "4">>, <<"Fan2">>, <<"Fan">>, <<"Nominal">>,
                   <<"3", "x">>, <<"RPM">>, OkEvent>>,
                 14, NaN, <<"O", "K">>, FALSE, TRUE)
BadIdData ==
    SensorRecord(<<<<"1", "x">>, <<"Fan3">>, <<"Fan">>, <<"Nominal">>,
                   <<"9">>, <<"RPM">>, OkEvent>>,
                 -1, Float(9), <<"O", "K">>, TRUE, FALSE)
ShortData ==
    SensorRecord(<<<<"1", "2">>, <<"Fan1">>, <<"Fan">>>>,
                 12, NaN, <<>>, FALSE, FALSE)
FiveData ==
    SensorRecord(<<<<"1", "3">>, <<"Temp1">>, <<"Temperature">>, <<"Nominal">>,
                   <<"7">>>>,
                 13, Float(7), <<>>, FALSE, FALSE)
FiveBadData ==
    SensorRecord(<<<<"1", "5">>, <<"Volt1">>, <<"Voltage">>, <<"Nominal">>,
                   <<"7", "x">>>>,
                 15, NaN, <<>>, FALSE, TRUE)
LongData ==
    SensorRecord(<<<<"1", "5">>, <<"Volt1">>, <<"Voltage">>, <<"Nominal">>,
                   <<"5">>, <<"V">>, OkEvent, <<"extra">>>>,
                 15, Float(5), <<"O", "K">>, FALSE, FALSE)

SensorRecords == {FanData, TempData, VoltData, BadValueData, BadIdData,
                  ShortData, FiveData, FiveBadData, LongData}

MaxRows == 2
SensorTables == UNION {[1..n -> SensorRecords] : n \in 0..MaxRows}
ExcludeSets == SUBSET {12, 14}

\* The bytes of a table: fields joined by ",", one line per record.
RECURSIVE RenderFields(_)
RenderFields(fields) ==
    IF fields = <<>> THEN <<>>
    ELSE IF Len(fields) = 1 THEN Head(fields)
    ELSE Head(fields) \o <<",">> \o RenderFields(Tail(fields))

RECURSIVE RenderTable(_)
RenderTable(table) ==
    IF table = <<>> THEN <<>>
    ELSE RenderFields(Head(table).fields) \o NL \o RenderTable(Tail(table))

\* What ipmi-chassis can return: the results of the scrapes, a line without
\* the blank after the colon, a value with a trailing blank.
ChassisResults ==
    Results \cup
    {[output |-> <<"System Power", ":", "o", "n">> \o NL, err |-> "none"],
     [output |-> PowerOnLine \o <<" ">> \o NL, err |-> "none"],
     [output |-> FirmwareLine \o NL \o PowerOnLine \o NL, err |-> "none"]}

FnInputs ==
    [fn : {"GetSensorData"}, table : SensorTables, excludeIds : ExcludeSets,
     err : {"none", "cmd"}]
    \cup [fn : {"ChassisCollect"}, result : ChassisResults]
    \cup [fn : {"EscapePassword"}, password : Passwords]

NoCall == [fn |-> "none"]

FnInit ==
    /\ fnPc = "call"
    /\ fnIn \in FnInputs
    /\ fnOut = NoCall

FnIdle ==
    /\ fnPc = "idle"
    /\ fnIn = NoCall
    /\ fnOut = NoCall

\* GetSensorData(ipmiOutput, excludeSensorIds) on the output of ipmi-sensors
CallGetSensorData ==
    /\ fnPc = "call"
    /\ fnIn.fn = "GetSensorData"
    /\ fnOut' = GetSensorData([output |-> RenderTable(fnIn.table),
                               err |-> fnIn.err], fnIn.excludeIds)
    /\ fnPc' = "done"
    /\ UNCHANGED fnIn
    /\ UNCHANGED <<execVars, cacheVars, scrapeVars, cfgVars>>

\* ChassisCollector.Collect(result, ch, target)
CallChassisCollect ==
    /\ fnPc = "call"
    /\ fnIn.fn = "ChassisCollect"
    /\ fnOut' = ChassisCollect(fnIn.result)
    /\ fnPc' = "done"
    /\ UNCHANGED fnIn
    /\ UNCHANGED <<execVars, cacheVars, scrapeVars, cfgVars>>

\* EscapePassword(password)
CallEscapePassword ==
    /\ fnPc = "call"
    /\ fnIn.fn = "EscapePassword"
    /\ fnOut' = EscapePassword(fnIn.password)
    /\ fnPc' = "done"
    /\ UNCHANGED fnIn
    /\ UNCHANGED <<execVars, cacheVars, scrapeVars, cfgVars>>

FnNext ==
    \/ CallGetSensorData
    \/ CallChassisCollect
    \/ CallEscapePassword

----------------------------------------------------------------------------
(* Specifications                                                          *)

Init == ExecInit /\ CacheIdle /\ ScrapeIdle /\ CfgIdle /\ FnIdle

Next == ExecNext

Spec == Init /\ [][Next]_vars

InitCache == CacheInit /\ ExecIdle /\ ScrapeIdle /\ CfgIdle /\ FnIdle

SpecCache == InitCache /\ [][CacheNext]_vars

InitScrape == ScrapeInit /\ ExecIdle /\ CfgIdle /\ FnIdle

SpecScrape == InitScrape /\ [][ScrapeNext]_vars

InitConfig == CfgInit /\ ExecIdle /\ CacheIdle /\ ScrapeIdle /\ FnIdle

SpecConfig == InitConfig /\ [][CfgNext]_vars

InitFn == FnInit /\ ExecIdle /\ CacheIdle /\ ScrapeIdle /\ CfgIdle

SpecFn == InitFn /\ [][FnNext]_vars

----------------------------------------------------------------------------
(* Claims about freeipmi.Execute (specification Spec)                      *)

\* C1: once Execute has returned (command succeeded, failed or could not be
\* started), no file-system object exists at the transport path, now or later.
C1_NoTransportAfterReturn ==
    execPc = "returned" => pipeObj = "none"

\* C2: the serialized credential config is written only into the FIFO, never
\* into a regular file.
C2_ConfigOnlyIntoFifo ==
    wroteTo \subseteq {"fifo"}

\* C3: no external command started by the program has the user name or the
\* password among its arguments.
C3_NoCredentialInArgv ==
    \A a \in invocations :
        \A i \in 1..Len(a) : a[i] # IpmiUser /\ a[i] # IpmiPassword

----------------------------------------------------------------------------
(* Claims about metaCollector.Collect (specification SpecScrape)           *)

ScrapeOver == scrapePc \in {"done", "panicked"}

\* The labels of the up/down indicators sent so far, in order.
UpNames(c) ==
    LET ups == SelectSeq(c, LAMBDA m : m.desc = "up")
    IN [i \in 1..Len(ups) |->
           IF ups[i].labels = <<>> THEN "" ELSE ups[i].labels[1]]

DurationCount(c) ==
    Cardinality({i \in 1..Len(c) : c[i].desc = "scrape_duration_seconds"})

\* C4: when a scrape of metaCollector is over, every enabled collector has
\* run and exactly one up/down indicator with its name was sent for it, in
\* configuration order.
C4_EveryCollectorReports ==
    (ScrapeOver /\ scrapeBy = "meta") =>
        /\ UpNames(ch) = scrapeCfg.collectors
        /\ [i \in 1..Len(scrapeLog) |-> scrapeLog[i].name] = scrapeCfg.collectors

\* The first line of the output that matches the pattern, if any.
MatchingLines(output, regex) ==
    LET lines == Split(output, "\n")
    IN {i \in 1..Len(lines) : FindStringSubmatch(lines[i], regex).matched}

RecoveryHolds(result, regex, got) ==
    LET lines == Split(result.output, "\n")
        hits == MatchingLines(result.output, regex)
    IN IF hits # {}
       THEN /\ got.err = "none"
            /\ got.value = FindStringSubmatch(
                   lines[CHOOSE i \in hits : \A j \in hits : i <= j], regex).value
       ELSE got.err = result.err

\* C5: identity-field extraction on a Result whose command error is set: the
\* captured value and no error if a line matches, the command error otherwise.
C5_IdentityRecovery ==
    (lastCollect.name # "none" /\ lastCollect.result.err # "none") =>
        /\ RecoveryHolds(lastCollect.result, bmcInfoFirmwareRevisionRegex,
                         lastCollect.fw)
        /\ RecoveryHolds(lastCollect.result, bmcInfoManufacturerIDRegex,
                         lastCollect.manu)

\* C5 witness: a failed command whose output still holds the firmware
\* revision but no manufacturer ID.
C5_Witness ==
    /\ lastCollect.name = "bmc"
    /\ lastCollect.result.err = "cmd"
    /\ lastCollect.fw = [value |-> <<"1", ".", "2">>, err |-> "none"]
    /\ lastCollect.manu.err = "cmd"

\* C6: every scrape sends exactly one scrape-duration sample, and sends it
\* last: none before the scrape is over, one at the end of the channel after.
C6_DurationOnceAtEnd ==
    IF ScrapeOver
    THEN /\ DurationCount(ch) = 1
         /\ ch[Len(ch)].desc = "scrape_duration_seconds"
    ELSE DurationCount(ch) = 0

\* C6 witness: a scrape in which a collector was down and another one
\* panicked, over with the duration as the last sample.
C6_Witness ==
    /\ scrapePc = "panicked"
    /\ Len(scrapeLog) = 1 /\ scrapeLog[1].up = 0
    /\ Len(ch) = 2

\* C6 witness of the ordinary end.
C6_WitnessDone ==
    /\ scrapePc = "done"
    /\ Len(ch) > 3

----------------------------------------------------------------------------
(* Claims about flushSensorSDRCache (specification SpecCache)              *)

\* The calendar month of a is before the calendar month of b.
EarlierMonth(a, b) == a.y < b.y \/ (a.y = b.y /\ a.m < b.m)

\* C7: a cache file whose name contains the target host gets exactly one
\* --flush-cache when it was modified in a strictly earlier month than today
\* and none when modified today or on a later day of this month; a file whose
\* name does not contain the host gets none.
C7_FlushByMonth ==
    lastFlush.ran =>
        \A f \in CacheFileNames :
            LET modTime == lastFlush.before[f]
                issued == Count(lastFlush.flushed, f)
            IN /\ ~Contains(f, cacheHost) => issued = 0
               /\ (Contains(f, cacheHost) /\ modTime # NoFile
                                          /\ f \notin lastFlush.statErr) =>
                     /\ EarlierMonth(modTime, lastFlush.day) => issued = 1
                     /\ (modTime.y = lastFlush.day.y /\ modTime.m = lastFlush.day.m
                           /\ modTime.d >= lastFlush.day.d) => issued = 0

\* C8: on one calendar day at most one flush is issued for a matching cache
\* file, however many scrapes that day has.
C8_FlushOncePerDay ==
    \A f \in CacheFileNames : Contains(f, cacheHost) => flushCount[f] <= 1

----------------------------------------------------------------------------
(* Claims about SafeConfig (specification SpecConfig)                      *)

InsideReaders == {r \in Readers : readerPc[r] = "inside"}

\* C9: readers share the lock (a reader waiting while only readers hold it
\* can enter), and no read section overlaps the reload's replacement of the
\* configuration.
C9_ReadersShareLock ==
    /\ \A r \in Readers :
          (readerPc[r] = "waiting" /\ cfgLock \in Readers) => ENABLED ReaderLock(r)
    /\ reloadPc = "locked" => InsideReaders = {}

\* The file cannot be read or cannot be parsed into a Config.
Unparsable(file) ==
    \/ ~file.readable
    \/ ~file.wellFormed
    \/ file.xxx # {}
    \/ \E j \in DOMAIN file.credentials : file.credentials[j].xxx # {}

\* C10: ReloadConfig on an unreadable or unparsable file returns an error and
\* leaves the configuration as it was before the call.
C10_FailedReloadKeepsConfig ==
    (reloadPc = "idle" /\ reloadRet # "none" /\ Unparsable(reloadFile)) =>
        /\ reloadRet = "err"
        /\ cfgC = cfgBefore

\* C10 witness: after a successful reload, a reload of a file with an unknown
\* key in a credentials entry has failed and a scrape has read the
\* configuration since.
C10_Witness ==
    /\ reloadPc = "idle"
    /\ reloadRet = "err"
    /\ reloadFile = FileUnknownCredKey
    /\ "job1" \in DOMAIN cfgC.Credentials
    /\ readerGot.op.fn = "ExcludeSensorIDs"
    /\ cfgLock = "free"

----------------------------------------------------------------------------
(* Claims about the calls of SpecFn                                        *)

SensorCallDone == fnPc = "done" /\ fnIn.fn = "GetSensorData"

\* Every record has the seven columns, an integer id and a decimal or N/A value.
WellFormedTable(table) ==
    \A i \in 1..Len(table) :
        /\ Len(table[i].fields) = SensorFields
        /\ ~table[i].badId
        /\ ~table[i].badValue

\* The records a table stands for, without those of the excluded ids.
ExpectedRows(table, excludeIds) ==
    LET kept == SelectSeq(table, LAMBDA d : d.id \notin excludeIds)
    IN [i \in 1..Len(kept) |->
           [ID |-> kept[i].id, Name |-> kept[i].fields[2],
            Type |-> kept[i].fields[3], State |-> kept[i].fields[4],
            Value |-> kept[i].value, Unit |-> kept[i].fields[6],
            Event |-> kept[i].event]]

\* C11: on a well-formed table and no command error GetSensorData returns
\* exactly the rows whose id is not excluded, in input order, with the columns
\* id, name, type, state, value, unit, event; "N/A" gives NaN and no error.
C11_SensorRowsKept ==
    (SensorCallDone /\ fnIn.err = "none" /\ WellFormedTable(fnIn.table)) =>
        fnOut = [kind |-> "ok", rows |-> ExpectedRows(fnIn.table, fnIn.excludeIds)]

\* C11 witness: id 12 is excluded from the table of the fan (12) and the
\* temperature sensor (13, value N/A); one row, with value NaN, is returned.
C11_Witness ==
    /\ SensorCallDone
    /\ fnIn.table = <<FanData, TempData>>
    /\ fnIn.excludeIds = {12}
    /\ fnIn.err = "none"
    /\ Len(fnOut.rows) = 1
    /\ fnOut.rows[1].ID = 13
    /\ fnOut.rows[1].Value = NaN
\* Some record has an id that is not an integer or a value that is neither a
\* decimal nor "N/A".
MalformedRows(table) ==
    {i \in 1..Len(table) : table[i].badId \/ table[i].badValue}

\* C12: whenever some row has a malformed id or a malformed value, the parse
\* is aborted and an error is returned, whatever the exclusion set.
C12_MalformedAborts ==
    (SensorCallDone /\ MalformedRows(fnIn.table) # {}) => fnOut.kind = "err"

ChassisCallDone == fnPc = "done" /\ fnIn.fn = "ChassisCollect"

\* The value of the first line that matches the system-power pattern.
FirstPowerValue(output) ==
    LET lines == Split(output, "\n")
        hits == MatchingLines(output, ipmiChassisPowerRegex)
    IN FindStringSubmatch(lines[CHOOSE i \in hits : \A j \in hits : i <= j],
                          ipmiChassisPowerRegex).value

\* C13: ChassisCollector.Collect sends exactly one power-state sample, 1 for
\* "on" and 0 for anything else, and returns up = 1 when the command had no
\* error and a line matches; otherwise it sends nothing and returns up = 0
\* with the error.
C13_ChassisCollect ==
    ChassisCallDone =>
        IF /\ fnIn.result.err = "none"
           /\ MatchingLines(fnIn.result.output, ipmiChassisPowerRegex) # {}
        THEN /\ fnOut.up = 1
             /\ fnOut.err = "none"
             /\ fnOut.metrics =
                  <<Metric("chassis_power_state", <<>>,
                           Float(IF FirstPowerValue(fnIn.result.output) = <<"o", "n">>
                                 THEN 1 ELSE 0))>>
        ELSE /\ fnOut.up = 0
             /\ fnOut.err # "none"
             /\ fnOut.metrics = <<>>

\* C13 witness: the command failed although it printed "System Power : on";
\* nothing is sent and up is 0.
C13_Witness ==
    /\ ChassisCallDone
    /\ fnIn.result = [output |-> PowerOnLine \o NL, err |-> "cmd"]
    /\ fnOut.up = 0
    /\ fnOut.metrics = <<>>

EscapeCallDone == fnPc = "done" /\ fnIn.fn = "EscapePassword"

\* The number of "#" among the first i characters of s.
HashesUpTo(s, i) == Cardinality({j \in 1..i : s[j] = "#"})

\* C14: every character of the password is in the output, in order, each "#"
\* with a backslash put right before it; there is nothing else in the
\* output, and no "#" of the output lacks the backslash before it.
C14_EscapePassword ==
    EscapeCallDone =>
        LET in == fnIn.password
            out == fnOut
        IN /\ Len(out) = Len(in) + HashesUpTo(in, Len(in))
           /\ \A i \in 1..Len(in) :
                 /\ out[i + HashesUpTo(in, i)] = in[i]
                 /\ in[i] = "#" => out[i + HashesUpTo(in, i) - 1] = "\\"
           /\ \A k \in 1..Len(out) :
                 out[k] = "#" => (k > 1 /\ out[k - 1] = "\\")

\* C14 witness: a password with two "#".
C14_Witness ==
    /\ EscapeCallDone
    /\ fnIn.password = <<"#", "a", "#">>
    /\ fnOut = <<"\\", "#", "a", "\\", "#">>

\* C16: whenever some row of the output does not have the seven columns, the
\* parse ends with a returned error: no crash, no records.
C16_WrongColumnCountIsError ==
    (SensorCallDone /\
     \E i \in 1..Len(fnIn.table) : Len(fnIn.table[i].fields) # SensorFields) =>
        fnOut.kind = "err"

----------------------------------------------------------------------------
(* Further claims about Execute, ReloadConfig and flushSensorSDRCache      *)

CommandAlive == cmdPc \in {"running", "blockedOpen", "reading"}

\* C15: the transport object is created before the external command is
\* started and removed only after the command has exited: while the command
\* is alive the FIFO exists and Execute has not returned.
C15_RemovalAfterExit ==
    /\ CommandAlive => (pipeObj = "fifo" /\ execPc = "waiting")
    /\ cmdPc # "none" => execPc \in {"waiting", "returned"}
    /\ execPc = "returned" => ~CommandAlive

\* C15 witness: the command read the transport and exited, Execute has
\* returned and the object is gone.
C15_Witness ==
    /\ execPc = "returned"
    /\ cmdPc = "exitedOk"
    /\ wroteTo = {"fifo"}
    /\ pipeObj = "none"

\* C18: no writer goroutine stays blocked once Execute has returned.
C18_NoWriterBlockedAfterReturn ==
    execPc = "returned" => writerPc # "blockedOpen"

\* C17: every write of ReloadConfig to the shared configuration happens
\* while the reload holds the lock.
C17_WritesUnderLock ==
    [][cfgC' # cfgC => cfgLock = "reload"]_vars

\* The calendar date a is before the calendar date b.
EarlierDate(a, b) ==
    \/ a.y < b.y
    \/ a.y = b.y /\ a.m < b.m
    \/ a.y = b.y /\ a.m = b.m /\ a.d < b.d

\* C19: every matching cache file modified on a calendar date before today
\* gets a flush, and a file modified today gets none.
C19_StaleByDate ==
    lastFlush.ran =>
        \A f \in CacheFileNames :
            LET modTime == lastFlush.before[f]
            IN (Contains(f, cacheHost) /\ modTime # NoFile
                                       /\ f \notin lastFlush.statErr) =>
                  /\ EarlierDate(modTime, lastFlush.day) =>
                        Count(lastFlush.flushed, f) >= 1
                  /\ modTime = lastFlush.day => Count(lastFlush.flushed, f) = 0

====
